---- MODULE Spec2Model ----
(***************************************************************************)
(* Model of generators/app/index.js of generator-electrode: the yeoman     *)
(* generator that resolves a project configuration (manifest, CLI options, *)
(* filesystem markers, prompts) and writes the project files.              *)
(*                                                                         *)
(* Strings the code inspects character by character (project names,        *)
(* keyword text, dependency names) are sequences of one-character strings. *)
(* A JavaScript value that may be undefined is a record with a kind field. *)
(***************************************************************************)
EXTENDS Integers, Sequences, FiniteSets, TLC

\* ------------------------------------------------------------------------
\* Characters and strings
\* ------------------------------------------------------------------------

LowerChars == <<"a","b","c","d","e","f","g","h","i","j","k","l","m",
                "n","o","p","q","r","s","t","u","v","w","x","y","z">>

UpperChars == <<"A","B","C","D","E","F","G","H","I","J","K","L","M",
                "N","O","P","Q","R","S","T","U","V","W","X","Y","Z">>

IndexIn(seq, c) == CHOOSE i \in 1..Len(seq) : seq[i] = c

IsLower(c) == \E i \in 1..Len(LowerChars) : LowerChars[i] = c

IsUpper(c) == \E i \in 1..Len(UpperChars) : UpperChars[i] = c

\* String.prototype.toLowerCase on one character.
toLower(c) == IF IsUpper(c) THEN LowerChars[IndexIn(UpperChars, c)] ELSE c

\* UTF-16 code unit of the characters the model uses in dependency names.
CodeUnit(c) ==
  IF IsUpper(c) THEN 64 + IndexIn(UpperChars, c)
  ELSE IF IsLower(c) THEN 96 + IndexIn(LowerChars, c)
  ELSE IF c = "-" THEN 45
  ELSE IF c = " " THEN 32
  ELSE IF c = "," THEN 44
  ELSE IF c = "0" THEN 48
  ELSE IF c = "1" THEN 49
  ELSE IF c = "2" THEN 50
  ELSE 246

\* The letter o with diaeresis (U+00F6), one character of a name.
ODiaeresis == "o:"

\* _.deburr on one character: Latin-1 letters lose their diacritics.
deburrChar(c) == IF c = ODiaeresis THEN "o" ELSE c

RECURSIVE deburr(_)
deburr(s) == IF s = <<>> THEN <<>> ELSE <<deburrChar(Head(s))>> \o deburr(Tail(s))

\* Last index of the run of characters satisfying the class of s[i] (lower or
\* upper) that starts at i.
RECURSIVE runEnd(_, _, _)
runEnd(s, i, lower) ==
  IF i + 1 <= Len(s) /\ (IF lower THEN IsLower(s[i + 1]) ELSE IsUpper(s[i + 1]))
  THEN runEnd(s, i + 1, lower)
  ELSE i

\* Last index of the word lodash's word pattern matches at the letter s[i]:
\* an optional capital followed by small letters, or a run of capitals that
\* stops before a capital that starts the next word.
wordEnd(s, i) ==
  IF IsLower(s[i]) THEN runEnd(s, i, TRUE)
  ELSE IF i + 1 <= Len(s) /\ IsLower(s[i + 1]) THEN runEnd(s, i + 1, TRUE)
  ELSE LET u == runEnd(s, i, FALSE)
       IN IF u > i /\ u + 1 <= Len(s) /\ IsLower(s[u + 1]) THEN u - 1 ELSE u

\* _.words: the words of s from index i on; every other character separates.
RECURSIVE wordsFrom(_, _)
wordsFrom(s, i) ==
  IF i > Len(s) THEN <<>>
  ELSE IF IsLower(s[i]) \/ IsUpper(s[i])
       THEN LET j == wordEnd(s, i)
            IN <<SubSeq(s, i, j)>> \o wordsFrom(s, j + 1)
       ELSE wordsFrom(s, i + 1)

RECURSIVE lowerCase(_)
lowerCase(s) == IF s = <<>> THEN <<>> ELSE <<toLower(Head(s))>> \o lowerCase(Tail(s))

RECURSIVE joinWords(_, _)
joinWords(ws, sep) ==
  IF ws = <<>> THEN <<>>
  ELSE IF Len(ws) = 1 THEN lowerCase(ws[1])
  ELSE lowerCase(ws[1]) \o <<sep>> \o joinWords(Tail(ws), sep)

\* _.kebabCase: the words of the deburred string, lower-cased, joined by "-".
kebabCase(s) == joinWords(wordsFrom(deburr(s), 1), "-")

\* ------------------------------------------------------------------------
\* JavaScript values
\* ------------------------------------------------------------------------

Undefined == [kind |-> "undefined"]

Null == [kind |-> "null"]

Str(s) == [kind |-> "string", chars |-> s]

Bool(b) == [kind |-> "boolean", bool |-> b]

Arr(items) == [kind |-> "array", items |-> items]

Obj(entries) == [kind |-> "object", entries |-> entries]

\* JavaScript truthiness: undefined, null, "" and false are falsy.
Truthy(v) ==
  CASE v.kind = "undefined" -> FALSE
    [] v.kind = "null" -> FALSE
    [] v.kind = "string" -> v.chars # <<>>
    [] v.kind = "boolean" -> v.bool
    [] OTHER -> TRUE

\* a || b
Or(a, b) == IF Truthy(a) THEN a ELSE b

\* typeof v === "object": true of mappings, of arrays and of null.
TypeofObject(v) == v.kind \in {"object", "array", "null"}

RECURSIVE filterTruthy(_)
filterTruthy(items) ==
  IF items = <<>> THEN <<>>
  ELSE IF Head(items) # <<>> THEN <<Head(items)>> \o filterTruthy(Tail(items))
  ELSE filterTruthy(Tail(items))

Elems(items) == {items[i] : i \in 1..Len(items)}

\* _.uniq: the first occurrence of every item, in order.
RECURSIVE uniq(_)
uniq(items) ==
  IF items = <<>> THEN <<>>
  ELSE LET init == uniq(SubSeq(items, 1, Len(items) - 1))
           last == items[Len(items)]
       IN IF last \in Elems(init) THEN init ELSE Append(init, last)

IsSpace(c) == c = " "

RECURSIVE trimLeft(_)
trimLeft(s) == IF s # <<>> /\ IsSpace(Head(s)) THEN trimLeft(Tail(s)) ELSE s

RECURSIVE trimRight(_)
trimRight(s) ==
  IF s # <<>> /\ IsSpace(s[Len(s)]) THEN trimRight(SubSeq(s, 1, Len(s) - 1)) ELSE s

\* The pieces of s between its commas.
RECURSIVE splitComma(_, _)
splitComma(s, piece) ==
  IF s = <<>> THEN <<piece>>
  ELSE IF Head(s) = "," THEN <<piece>> \o splitComma(Tail(s), <<>>)
  ELSE splitComma(Tail(s), Append(piece, Head(s)))

\* words.split(/\s*,\s*/g): the separator takes the white space on both sides
\* of a comma, so a piece is trimmed only on a side where a comma stands.
splitKeywords(s) ==
  LET pieces == splitComma(s, <<>>)
      n == Len(pieces)
  IN [i \in 1..n |->
        LET l == IF i > 1 THEN trimLeft(pieces[i]) ELSE pieces[i]
        IN IF i < n THEN trimRight(l) ELSE l]

\* The filter of the keywords prompt.
keywordsFilter(words) == filterTruthy(splitKeywords(words))

\* The keywords combined in writing.
combineKeywords(prompted, existing) == filterTruthy(uniq(prompted \o existing))

\* ------------------------------------------------------------------------
\* package.json
\* ------------------------------------------------------------------------

ScalarFields == {"name", "version", "description", "homepage", "main", "license"}

DepGroups == {"dependencies", "devDependencies", "peerDependencies",
              "optionalDependencies"}

\* What readJSON returns for a missing file: {}.
EmptyPkg ==
  [name |-> Undefined, version |-> Undefined, description |-> Undefined,
   homepage |-> Undefined, main |-> Undefined, license |-> Undefined,
   author |-> Undefined, files |-> Undefined, keywords |-> Undefined,
   dependencies |-> Undefined, devDependencies |-> Undefined,
   peerDependencies |-> Undefined, optionalDependencies |-> Undefined]

Author(name, email, url) ==
  [kind |-> "object", name |-> name, email |-> email, url |-> url]

\* First index of character c in s, or 0.
RECURSIVE indexOf(_, _, _)
indexOf(s, c, i) ==
  IF i > Len(s) THEN 0 ELSE IF s[i] = c THEN i ELSE indexOf(s, c, i + 1)

Between(s, open, close) ==
  LET a == indexOf(s, open, 1)
      b == indexOf(s, close, 1)
  IN IF a > 0 /\ b > a THEN Str(SubSeq(s, a + 1, b - 1)) ELSE Undefined

\* parse-author: "Name <email> (url)", every part optional.
parseAuthor(s) ==
  LET a == indexOf(s, "<", 1)
      b == indexOf(s, "(", 1)
      stop == IF a > 0 THEN a ELSE IF b > 0 THEN b ELSE Len(s) + 1
      name == trimRight(SubSeq(s, 1, stop - 1))
  IN [name |-> IF name = <<>> THEN Undefined ELSE Str(name),
      email |-> Between(s, "<", ">"),
      url |-> Between(s, "(", ")")]

\* a < b in the order of Array.prototype.sort without a comparator (by UTF-16
\* code units).
RECURSIVE lexLess(_, _)
lexLess(a, b) ==
  IF b = <<>> THEN FALSE
  ELSE IF a = <<>> THEN TRUE
  ELSE IF CodeUnit(Head(a)) # CodeUnit(Head(b)) THEN CodeUnit(Head(a)) < CodeUnit(Head(b))
  ELSE lexLess(Tail(a), Tail(b))

\* The entries inserted in the order of their sorted keys.
RECURSIVE insertSorted(_, _)
insertSorted(sorted, e) ==
  IF sorted = <<>> THEN <<e>>
  ELSE IF lexLess(e.key, Head(sorted).key) THEN <<e>> \o sorted
  ELSE <<Head(sorted)>> \o insertSorted(Tail(sorted), e)

RECURSIVE sortEntries(_)
sortEntries(entries) ==
  IF entries = <<>> THEN <<>>
  ELSE insertSorted(sortEntries(Tail(entries)), Head(entries))

DigitChars == <<"0", "1", "2", "3", "4", "5", "6", "7", "8", "9">>

\* Object.keys of an array are its indices; _.pick then builds a mapping.
indexEntries(items) ==
  [i \in 1..Len(items) |-> [key |-> <<DigitChars[i]>>, value |-> items[i]]]

\* sortDep throws on null: Object.keys(null) is a TypeError.
sortDepThrows(v) == v.kind = "null"

\* sortDep on one dependency group of the manifest about to be written.
sortDep(v) ==
  IF ~TypeofObject(v) THEN v
  ELSE IF v.kind = "object" THEN Obj(sortEntries(v.entries))
  ELSE IF v.kind = "array" THEN Obj(sortEntries(indexEntries(v.items)))
  ELSE v

Keys(entries) == {entries[i].key : i \in 1..Len(entries)}

ValueOf(entries, k) == entries[CHOOSE i \in 1..Len(entries) : entries[i].key = k].value

RECURSIVE keepNew(_, _)
keepNew(entries, known) ==
  IF entries = <<>> THEN <<>>
  ELSE IF Head(entries).key \in known THEN keepNew(Tail(entries), known)
  ELSE <<Head(entries)>> \o keepNew(Tail(entries), known)

\* _.merge of two mappings: the keys of obj first, src winning on a shared key.
mergeEntries(obj, src) ==
  [i \in 1..Len(obj) |->
     IF obj[i].key \in Keys(src)
     THEN [key |-> obj[i].key, value |-> ValueOf(src, obj[i].key)]
     ELSE obj[i]]
  \o keepNew(src, Keys(obj))

\* _.merge on one property: undefined in the source is skipped.
mergeValue(obj, src) ==
  IF src.kind = "undefined" THEN obj
  ELSE IF src.kind = "object" /\ obj.kind = "object"
       THEN Obj(mergeEntries(obj.entries, src.entries))
  ELSE src

\* _.merge on the author property.
mergeAuthor(obj, src) ==
  IF src.kind = "undefined" THEN obj
  ELSE IF src.kind = "object" /\ obj.kind = "object"
       THEN Author(mergeValue(obj.name, src.name), mergeValue(obj.email, src.email),
                   mergeValue(obj.url, src.url))
  ELSE src

\* extend({}, defaultPkg, updatePkg)
extend(defaultPkg, updatePkg) ==
  [f \in DOMAIN EmptyPkg |->
     IF f = "author" THEN mergeAuthor(defaultPkg[f], updatePkg[f])
     ELSE mergeValue(defaultPkg[f], updatePkg[f])]

\* defaultValue as _.assign would do it: a defined default overwrites.
defaultValueAssigned(cur, def) == IF def.kind = "undefined" THEN cur ELSE def

\* _.defaultsDeep on one property: only an undefined destination is filled.
defaultValue(cur, def) == IF cur.kind = "undefined" THEN def ELSE cur

defaultAuthor(cur, def) ==
  IF cur.kind = "undefined" THEN def
  ELSE IF cur.kind = "object"
       THEN Author(defaultValue(cur.name, def.name), defaultValue(cur.email, def.email),
                   defaultValue(cur.url, def.url))
  ELSE cur

\* _.defaultsDeep on an array property: indices the destination lacks are filled.
defaultArray(cur, def) ==
  IF cur.kind = "undefined" THEN def
  ELSE IF cur.kind = "array" /\ Len(cur.items) < Len(def.items)
       THEN Arr(cur.items \o SubSeq(def.items, Len(cur.items) + 1, Len(def.items)))
  ELSE cur

\* _.defaultsDeep(currentPkg, defaults)
defaultsDeep(currentPkg, defaults) ==
  [f \in DOMAIN EmptyPkg |->
     IF f = "author" THEN defaultAuthor(currentPkg[f], defaults[f])
     ELSE IF f \in {"files", "keywords"} THEN defaultArray(currentPkg[f], defaults[f])
     ELSE defaultValue(currentPkg[f], defaults[f])]

\* currentPkg[x] = currentPkg[x] || undefined, for the six scalar fields.
normalizeScalars(currentPkg) ==
  [f \in DOMAIN EmptyPkg |->
     IF f \in ScalarFields THEN Or(currentPkg[f], Undefined) ELSE currentPkg[f]]

\* ------------------------------------------------------------------------
\* Paths, globs and the template trees
\* ------------------------------------------------------------------------

\* A file path is the sequence of its segments.
ExpressEntry == <<"src", "server", "express-server.js">>

KoaEntry == <<"src", "server", "koa-server.js">>

SwRegistration == <<"src", "client", "sw-registration.js">>

IsPrefix(p, f) == Len(p) <= Len(f) /\ SubSeq(f, 1, Len(p)) = p

IsSuffix(p, f) == Len(p) <= Len(f) /\ SubSeq(f, Len(f) - Len(p) + 1, Len(f)) = p

\* this.fs.exists: a file, or a directory that holds one.
Exists(files, p) == \E f \in files : IsPrefix(p, f)

\* The glob **/<path>: any file whose path ends with <path>.
AnyDir(path) == [glob |-> "suffix", path |-> path]

\* The glob **/<path>/**: any file below a directory <path>.
Below(path) == [glob |-> "below", path |-> path]

\* The empty pattern '' matches no file.
NoGlob == [glob |-> "none", path |-> <<>>]

GlobMatches(g, f) ==
  CASE g.glob = "suffix" -> IsSuffix(g.path, f)
    [] g.glob = "below" ->
         \E i \in 1..Len(f) : i + Len(g.path) <= Len(f)
                              /\ SubSeq(f, i, i + Len(g.path) - 1) = g.path
    [] OTHER -> FALSE

\* The files of a template tree that copyTpl renders under globOptions.ignore.
Rendered(tree, ignore) ==
  {f \in tree : \A i \in 1..Len(ignore) : ~GlobMatches(ignore[i], f)}

\* templates/src/server
ServerTemplate ==
  {<<"src", "server", "index.js">>, ExpressEntry, KoaEntry,
   <<"src", "server", "babelrc">>}

\* templates/src/client
ClientTemplate ==
  {<<"src", "client", "app.jsx">>, SwRegistration, <<"src", "client", "babelrc">>,
   <<"src", "client", "images", "logo.png">>}

\* templates/gulpfile.js, templates/config, templates/test
RootTemplate(f) ==
  CASE f = "gulpfile.js" -> {<<"gulpfile.js">>}
    [] f = "config" -> {<<"config", "development.json">>}
    [] f = "test" -> {<<"test", "client", "babelrc">>, <<"test", "client", "eslintrc">>,
                      <<"test", "server", "babelrc">>, <<"test", "server", "eslintrc">>}
    [] f = ".eslintrc" -> {<<".eslintrc">>}

\* this.fs.move(d + '/' + from, d + '/' + to)
Move(files, d, from, to) ==
  IF Append(d, from) \in files
  THEN (files \ {Append(d, from)}) \cup {Append(d, to)}
  ELSE files

HapiJS == Str(<<"H", "a", "p", "i", "J", "S">>)

ExpressJS == Str(<<"E", "x", "p", "r", "e", "s", "s", "J", "S">>)

KoaJS == Str(<<"K", "o", "a", "J", "S">>)

SingleQuote == Str(<<"'">>)

DoubleQuote == Str(<<"\"">>)

\* ignoreArray with the files of the two else-branches exchanged.
ignoreArrayExchanged(serverType) ==
  IF serverType = HapiJS THEN <<AnyDir(ExpressEntry), AnyDir(KoaEntry)>>
  ELSE IF serverType = ExpressJS THEN <<AnyDir(ExpressEntry)>>
  ELSE <<AnyDir(KoaEntry)>>

\* The ignore rules of the src/server tree, from the stored serverType.
ignoreArray(serverType) ==
  IF serverType = HapiJS THEN <<AnyDir(ExpressEntry), AnyDir(KoaEntry)>>
  ELSE IF serverType = ExpressJS THEN <<AnyDir(KoaEntry)>>
  ELSE <<AnyDir(ExpressEntry)>>

\* The ignore rules of the src/client tree.
clientIgnore(isPWA) ==
  <<Below(<<"client", "images">>),
    IF ~Truthy(isPWA) THEN AnyDir(<<"client", "sw-registration.js">>) ELSE NoGlob>>

\* templates/_package.json rendered with the feature flags.
TemplatePkg(isHapi, isExpress) ==
  [EmptyPkg EXCEPT
     !.version = Str(<<"0.0.1">>),
     !.license = Str(<<"Apache-2.0">>),
     !.dependencies =
        Obj(<<[key |-> <<"m", "u">>, value |-> "^1.0.0"],
              [key |-> IF isHapi THEN <<"h", "a", "p", "i">>
                       ELSE IF isExpress THEN <<"e", "x", "p", "r", "e", "s", "s">>
                       ELSE <<"k", "o", "a">>,
               value |-> "^2.0.0"]>>),
     !.devDependencies = Obj(<<[key |-> <<"g", "u", "l", "p">>, value |-> "^3.0.0"]>>)]

\* ------------------------------------------------------------------------
\* Inputs: destinations before the first run, CLI options, prompt answers
\* ------------------------------------------------------------------------

\* Runs of the generator in one behaviour.
MaxRuns == 2

\* The directory the generator is started in.
Root == <<>>

EmptyDir == [hasPkg |-> FALSE, pkg |-> EmptyPkg, files |-> {}, store |-> Undefined]

GeneratedPkg ==
  [EmptyPkg EXCEPT
     !.name = Str(<<"m", "y", "-", "c", "o", "o", "l", "-", "a", "p", "p">>),
     !.version = Str(<<"2.0.0">>),
     !.description = Str(<<"existing description">>),
     !.license = Str(<<"MIT">>),
     !.author = Author(Str(<<"Jane">>), Str(<<"jane@example.com">>), Undefined),
     !.keywords = Arr(<< <<"w", "e", "b">>, <<"u", "i">> >>),
     !.dependencies =
        Obj(<<[key |-> <<"z", "e", "t", "a">>, value |-> "1.0.0"],
              [key |-> <<"a", "l", "p", "h", "a">>, value |-> "2.0.0"],
              [key |-> <<"m", "u">>, value |-> "3.0.0"]>>)]

HandWrittenPkg ==
  [EmptyPkg EXCEPT
     !.name = Str(<<"M", "y", "C", "o", "o", "l", "A", "p", "p">>),
     !.description = Str(<<>>),
     !.main = Str(<<"lib/index.js">>),
     !.author = Str(<<"J", "a", "n", "e", " ", "<", "j", "@", "x", ">">>),
     !.keywords = Arr(<< <<"w", "e", "b">>, <<>>, <<"w", "e", "b">> >>),
     !.devDependencies = Arr(<<"left-pad", "gulp">>),
     !.optionalDependencies = Str(<<"none">>)]

AnonymousPkg ==
  [EmptyPkg EXCEPT
     !.description = Str(<<"existing description">>),
     !.homepage = Str(<<"https://example.com">>),
     !.peerDependencies = Null]

ExpressProject ==
  {ExpressEntry, <<"README.md">>, <<"config", "default.js">>,
   <<"server", "plugins", "webapp", "index.js">>}

KoaProject ==
  {KoaEntry, <<".eslintrc">>, <<"client", "sw-registration.js">>,
   <<"server", "plugins", "autossr.js">>}

\* The destinations a first run may find.
Destinations ==
  {EmptyDir,
   [hasPkg |-> TRUE, pkg |-> GeneratedPkg, files |-> ExpressProject, store |-> ExpressJS],
   [hasPkg |-> TRUE, pkg |-> GeneratedPkg, files |-> KoaProject, store |-> Undefined],
   [hasPkg |-> TRUE, pkg |-> HandWrittenPkg, files |-> ExpressProject, store |-> Undefined],
   [hasPkg |-> TRUE, pkg |-> HandWrittenPkg, files |-> {}, store |-> KoaJS],
   [hasPkg |-> TRUE, pkg |-> AnonymousPkg, files |-> ExpressProject, store |-> Undefined],
   [hasPkg |-> FALSE, pkg |-> EmptyPkg, files |-> ExpressProject, store |-> KoaJS]}

DefaultOptions ==
  [travis |-> TRUE, license |-> TRUE, name |-> Undefined, githubAccount |-> Undefined,
   projectRoot |-> <<"server">>]

\* The command lines a run is started with.
CliOptions ==
  {DefaultOptions,
   [DefaultOptions EXCEPT !.name = Str(<<"C", "l", "i", "N", ODiaeresis, "m", "e">>)],
   [DefaultOptions EXCEPT !.license = FALSE, !.travis = FALSE,
                          !.githubAccount = Str(<<"octo">>)]}

NameAnswers == {Str(<<"M", "y", " ", "C", "o", "o", "l", " ", "A", "p", "p">>), Str(<<"-">>)}

KeywordAnswers ==
  {<<"u", "i", ",", " ", "c", "a", "c", "h", "e", ",", " ", "c", "a", "c", "h", "e">>,
   <<>>}

\* What the user may answer to the prompt of each field.
AnswerDomain(field) ==
  CASE field = "name" -> NameAnswers
    [] field = "description" -> {Str(<<"prompted description">>)}
    [] field = "homepage" -> {Str(<<"https://prompted.example">>)}
    [] field = "serverType" -> {HapiJS, ExpressJS, KoaJS}
    [] field = "authorName" -> {Str(<<"Git User">>)}
    [] field = "authorEmail" -> {Str(<<"git@example.com">>)}
    [] field = "authorUrl" -> {Str(<<>>)}
    [] field = "keywords" -> {Arr(keywordsFilter(t)) : t \in KeywordAnswers}
    [] field = "pwa" -> {Bool(TRUE), Bool(FALSE)}
    [] field = "autoSsr" -> {Bool(FALSE)}
    [] field = "quoteType" -> {DoubleQuote, SingleQuote}
    [] field = "createDirectory" -> {Bool(TRUE), Bool(FALSE)}

\* ------------------------------------------------------------------------
\* State
\* ------------------------------------------------------------------------

VARIABLES
  fs,       \* the directories on disk: path -> [hasPkg, pkg, files, store]
  pc,       \* the phase of the run loop the generator is in
  gen,      \* the generator instance: this.pkg, this.props, this.options, ...
  prev,     \* what the latest completed run resolved
  runs,     \* runs started so far
  initial   \* the root directory as the first run found it

vars == <<fs, pc, gen, prev, runs, initial>>

PromptFields ==
  <<"name", "description", "homepage", "serverType", "authorName", "authorEmail",
    "authorUrl", "keywords", "pwa", "autoSsr", "quoteType", "createDirectory">>

NoProps ==
  [name |-> Undefined, description |-> Undefined, version |-> Undefined,
   homepage |-> Undefined, serverType |-> Undefined, authorName |-> Undefined,
   authorEmail |-> Undefined, authorUrl |-> Undefined, keywords |-> Undefined,
   pwa |-> Undefined, autoSsr |-> Undefined, quoteType |-> Undefined,
   createDirectory |-> Undefined, githubAccount |-> Undefined]

NoAnswers == [f \in Elems(PromptFields) |-> Undefined]

\* The generator before initializing.
NoGen ==
  [pkg |-> EmptyPkg, props |-> NoProps, options |-> DefaultOptions, dest |-> Root,
   root0 |-> EmptyDir, prompted |-> {}, answers |-> NoAnswers, log |-> <<>>,
   composed |-> <<>>, ignore |-> <<>>, currentPkg |-> EmptyPkg,
   mergedPkg |-> EmptyPkg]

NoPrev ==
  [done |-> FALSE, dest |-> Root, serverType |-> Undefined, pwa |-> Undefined,
   quoteType |-> Undefined, createDirectory |-> Undefined, formatted |-> FALSE]

\* this.destinationPath(): the directory at dest, empty while it does not exist.
Dir(d) == IF d \in DOMAIN fs THEN fs[d] ELSE EmptyDir

\* this.fs.readJSON(this.destinationPath('package.json'), {})
readPkg(d) == IF Dir(d).hasPkg THEN Dir(d).pkg ELSE EmptyPkg

\* The disk with directory d replaced.
WithDir(d, dir) == [x \in DOMAIN fs \cup {d} |-> IF x = d THEN dir ELSE fs[x]]

\* path.resolve(dest + '/' + slug): an empty last segment names dest itself.
Resolve(dest, slug) == IF slug = <<>> THEN dest ELSE Append(dest, slug)

\* The project subdirectory the model's names lead to.
ProjectDir == Resolve(Root, kebabCase(<<"M", "y", " ", "C", "o", "o", "l", " ", "A", "p", "p">>))

Init ==
  /\ \E d \in Destinations, at \in {Root, ProjectDir} :
       /\ fs = IF at = Root THEN [x \in {Root} |-> d]
               ELSE [x \in {Root, at} |-> IF x = at THEN d ELSE EmptyDir]
       /\ initial = IF at = Root THEN d ELSE EmptyDir
  /\ pc = "idle"
  /\ gen = NoGen
  /\ prev = NoPrev
  /\ runs = 0

\* ------------------------------------------------------------------------
\* initializing
\* ------------------------------------------------------------------------

\* The server framework the entry files at the destination stand for.
detectServerType(files) ==
  IF Exists(files, ExpressEntry) THEN ExpressJS
  ELSE IF Exists(files, KoaEntry) THEN KoaJS
  ELSE HapiJS

\* this.props after initializing.
initialProps(pkg, files) ==
  LET base == [NoProps EXCEPT !.name = pkg.name, !.description = pkg.description,
                              !.version = pkg.version, !.homepage = pkg.homepage]
  IN IF pkg.author.kind = "object"
     THEN [base EXCEPT
             !.authorName = pkg.author.name,
             !.authorEmail = pkg.author.email,
             !.authorUrl = pkg.author.url,
             !.createDirectory = Bool(FALSE),
             !.serverType = detectServerType(files),
             !.pwa = Bool(Exists(files, <<"client", "sw-registration.js">>)),
             !.autoSsr = Bool(Exists(files, <<"server", "plugins", "autossr.js">>)),
             !.quoteType = IF Exists(files, <<".eslintrc">>) THEN SingleQuote
                           ELSE DoubleQuote]
     ELSE IF pkg.author.kind = "string"
     THEN LET info == parseAuthor(pkg.author.chars)
          IN [base EXCEPT !.authorName = info.name, !.authorEmail = info.email,
                          !.authorUrl = info.url]
     ELSE base

\* this.pkg after initializing: the manifest with its falsy keywords dropped.
initialPkg(pkg) ==
  IF pkg.keywords.kind = "array"
  THEN [pkg EXCEPT !.keywords = Arr(filterTruthy(pkg.keywords.items))]
  ELSE pkg

\* The constructor and the initializing phase of a run started in Root.
Start ==
  /\ pc \in {"idle", "failed"}
  /\ \E options \in CliOptions :
       LET pkg == initialPkg(readPkg(Root))
       IN gen' = [NoGen EXCEPT !.pkg = pkg,
                               !.props = initialProps(pkg, Dir(Root).files),
                               !.options = options,
                               !.root0 = Dir(Root)]
  /\ pc' = "prompting"
  /\ runs' = runs + 1
  /\ UNCHANGED <<fs, prev, initial>>

\* The first run on a destination.
Initializing == runs = 0 /\ Start

\* A further run in the same root directory.
Rerun == runs > 0 /\ runs < MaxRuns /\ Start

\* ------------------------------------------------------------------------
\* prompting
\* ------------------------------------------------------------------------

CharsOf(v) == IF v.kind = "string" THEN v.chars ELSE <<>>

\* presetName with the operands of || exchanged: the CLI option first.
presetNameCliFirst(props, pkg, options) ==
  IF Truthy(pkg.name) \/ Truthy(options.name)
  THEN [props EXCEPT !.name = IF Truthy(options.name)
                               THEN Str(kebabCase(CharsOf(options.name)))
                               ELSE pkg.name]
  ELSE props

\* The name known before the prompts: the manifest's, else the CLI option's.
presetName(props, pkg, options) ==
  IF Truthy(pkg.name) \/ Truthy(options.name)
  THEN [props EXCEPT !.name = IF Truthy(pkg.name) THEN pkg.name
                               ELSE Str(kebabCase(CharsOf(options.name)))]
  ELSE props

\* _.isEmpty(this.pkg.keywords)
keywordsEmpty(pkg) == pkg.keywords.kind # "array" \/ pkg.keywords.items = <<>>

\* The `when` of every prompt.
when(field, props, pkg) ==
  CASE field = "keywords" -> keywordsEmpty(pkg)
    [] field \in {"pwa", "autoSsr", "quoteType", "createDirectory"} ->
         props[field] = Undefined
    [] OTHER -> ~Truthy(props[field])

\* The answers inquirer returns: one for every prompt shown, none for the others.
Answers(props, pkg) ==
  [name : IF when("name", props, pkg) THEN AnswerDomain("name") ELSE {Undefined},
   description : IF when("description", props, pkg) THEN AnswerDomain("description")
                 ELSE {Undefined},
   homepage : IF when("homepage", props, pkg) THEN AnswerDomain("homepage")
              ELSE {Undefined},
   serverType : IF when("serverType", props, pkg) THEN AnswerDomain("serverType")
                ELSE {Undefined},
   authorName : IF when("authorName", props, pkg) THEN AnswerDomain("authorName")
                ELSE {Undefined},
   authorEmail : IF when("authorEmail", props, pkg) THEN AnswerDomain("authorEmail")
                 ELSE {Undefined},
   authorUrl : IF when("authorUrl", props, pkg) THEN AnswerDomain("authorUrl")
               ELSE {Undefined},
   keywords : IF when("keywords", props, pkg) THEN AnswerDomain("keywords")
              ELSE {Undefined},
   pwa : IF when("pwa", props, pkg) THEN AnswerDomain("pwa") ELSE {Undefined},
   autoSsr : IF when("autoSsr", props, pkg) THEN AnswerDomain("autoSsr")
             ELSE {Undefined},
   quoteType : IF when("quoteType", props, pkg) THEN AnswerDomain("quoteType")
               ELSE {Undefined},
   createDirectory : IF when("createDirectory", props, pkg)
                     THEN AnswerDomain("createDirectory") ELSE {Undefined}]

\* this.props = extend(this.props, props)
mergeAnswers(props, answers) ==
  [f \in DOMAIN props |->
     IF f \in DOMAIN answers THEN mergeValue(props[f], answers[f]) ELSE props[f]]

\* The directory name of a relocated project.
slug(props) == kebabCase(deburr(CharsOf(props.name)))

\* The destination root once the answers are merged.
relocate(dest, props) ==
  IF Truthy(props.createDirectory) THEN Resolve(dest, slug(props)) ELSE dest

\* configRoot when config.set runs before the relocation.
configRootBeforeRelocation(dest, newDest) == dest

\* The destination root this.config.set writes under.
configRoot(dest, newDest) == newDest

\* askFor: the prompts, the relocation and the State Store write.
AskFor ==
  /\ pc = "prompting"
  /\ LET props1 == presetName(gen.props, gen.pkg, gen.options)
     IN \E answers \in Answers(props1, gen.pkg) :
          LET props2 == mergeAnswers(props1, answers)
              newDest == relocate(gen.dest, props2)
              target == configRoot(gen.dest, newDest)
              made == IF newDest \in DOMAIN fs THEN fs ELSE WithDir(newDest, EmptyDir)
              old == IF target \in DOMAIN made THEN made[target] ELSE EmptyDir
          IN /\ gen' = [gen EXCEPT
                          !.props = props2,
                          !.answers = answers,
                          !.prompted = {PromptFields[i] : i \in
                                          {j \in 1..Len(PromptFields) :
                                             when(PromptFields[j], props1, gen.pkg)}},
                          !.dest = newDest,
                          !.log = (IF Truthy(props2.createDirectory)
                                   THEN <<[op |-> "destinationRoot", root |-> newDest]>>
                                   ELSE <<>>)
                                  \o <<[op |-> "config.set", root |-> target]>>]
             /\ fs' = [x \in DOMAIN made \cup {target} |->
                         IF x = target THEN [old EXCEPT !.store = props2.serverType]
                         ELSE made[x]]
  /\ pc' = "askForGithubAccount"
  /\ UNCHANGED <<prev, runs, initial>>

\* askForGithubAccount: the CLI option, else the answer to one more prompt.
AskForGithubAccount ==
  /\ pc = "askForGithubAccount"
  /\ IF Truthy(gen.options.githubAccount)
     THEN gen' = [gen EXCEPT !.props.githubAccount = gen.options.githubAccount]
     ELSE \E account \in {Str(<<"jane">>)} :
            gen' = [gen EXCEPT !.props.githubAccount = account,
                               !.prompted = @ \cup {"githubAccount"}]
  /\ pc' = "default"
  /\ UNCHANGED <<fs, prev, runs, initial>>

\* ------------------------------------------------------------------------
\* default
\* ------------------------------------------------------------------------

Compose(cond, name) == IF cond THEN <<name>> ELSE <<>>

\* composeList without the existence check of the readme generator.
composeListReadmeUngated(options, pkg, files) ==
  Compose(options.travis, "travis")
  \o <<"electrode:editorconfig", "electrode:git">>
  \o Compose(options.license /\ ~Truthy(pkg.license), "license")
  \o <<"electrode:readme">>
  \o Compose(~Exists(files, <<"config", "default.js">>), "electrode:config")
  \o Compose(~Exists(files, <<"server", "plugins", "webapp">>), "electrode:webapp")

\* The sub-generators the default phase composes with, in order.
composeList(options, pkg, files) ==
  Compose(options.travis, "travis")
  \o <<"electrode:editorconfig", "electrode:git">>
  \o Compose(options.license /\ ~Truthy(pkg.license), "license")
  \o Compose(~Exists(files, <<"README.md">>), "electrode:readme")
  \o Compose(~Exists(files, <<"config", "default.js">>), "electrode:config")
  \o Compose(~Exists(files, <<"server", "plugins", "webapp">>), "electrode:webapp")

Default ==
  /\ pc = "default"
  /\ LET list == composeList(gen.options, gen.pkg, Dir(gen.dest).files)
     IN gen' = [gen EXCEPT
                  !.composed = list,
                  !.log = @ \o [i \in 1..Len(list) |->
                                  [op |-> "composeWith", root |-> gen.dest]]]
  /\ pc' = "writing"
  /\ UNCHANGED <<fs, prev, runs, initial>>

\* ------------------------------------------------------------------------
\* writing
\* ------------------------------------------------------------------------

\* The generator's defaults for the manifest.
pkgDefaults(props, options) ==
  [EmptyPkg EXCEPT
     !.name = Str(kebabCase(CharsOf(props.name))),
     !.version = Str(<<"0.0.1">>),
     !.description = props.description,
     !.homepage = props.homepage,
     !.author = Author(props.authorName, props.authorEmail, props.authorUrl),
     !.files = Arr(<<options.projectRoot>>),
     !.main = Str(options.projectRoot \o <<"/index.js">>),
     !.keywords = Arr(<<>>)]

\* var updatePkg = _.defaultsDeep(currentPkg, {...})
updatePkg(currentPkg, props, options) ==
  defaultsDeep(normalizeScalars(currentPkg), pkgDefaults(props, options))

\* pkg before its dependency groups are sorted: the template's manifest, the
\* update merged over it, and the prompted keywords combined in.
mergedPkg(defaultPkg, currentPkg, props, options) ==
  LET pkg == extend(defaultPkg, updatePkg(currentPkg, props, options))
  IN IF Truthy(props.keywords)
     THEN [pkg EXCEPT !.keywords =
             Arr(combineKeywords(props.keywords.items,
                                 IF pkg.keywords.kind = "array" THEN pkg.keywords.items
                                 ELSE <<>>))]
     ELSE pkg

\* ["dependencies", ...].forEach(sortDep)
sortDeps(pkg) ==
  [f \in DOMAIN pkg |-> IF f \in DepGroups THEN sortDep(pkg[f]) ELSE pkg[f]]

\* The files of the destination once writing has rendered, moved and copied.
writtenFiles(files, isSingleQuote, ignore, isPWA) ==
  LET configs == RootTemplate("gulpfile.js") \cup RootTemplate("config")
                 \cup RootTemplate("test")
                 \cup (IF isSingleQuote THEN RootTemplate(".eslintrc") ELSE {})
      copied == files \cup configs \cup Rendered(ServerTemplate, ignore)
                \cup Rendered(ClientTemplate, clientIgnore(isPWA))
      b1 == Move(copied, <<"src", "client">>, "babelrc", ".babelrc")
      b2 == Move(b1, <<"src", "server">>, "babelrc", ".babelrc")
      b3 == Move(b2, <<"test", "client">>, "babelrc", ".babelrc")
      b4 == Move(b3, <<"test", "server">>, "babelrc", ".babelrc")
      e1 == Move(b4, <<"test", "client">>, "eslintrc", ".eslintrc")
      e2 == Move(e1, <<"test", "server">>, "eslintrc", ".eslintrc")
  IN e2 \cup {f \in ClientTemplate : IsPrefix(<<"src", "client", "images">>, f)}

Writing ==
  /\ pc = "writing"
  /\ LET stored == Dir(gen.dest).store
         isHapi == stored = HapiJS
         isExpress == stored = ExpressJS
         ignore == ignoreArray(stored)
         currentPkg == readPkg(gen.dest)
         merged == mergedPkg(TemplatePkg(isHapi, isExpress), currentPkg, gen.props,
                             gen.options)
     IN IF \E g \in DepGroups : sortDepThrows(merged[g])
        THEN /\ pc' = "failed"
             /\ gen' = [gen EXCEPT !.ignore = ignore, !.currentPkg = currentPkg,
                                   !.mergedPkg = merged]
             /\ fs' = fs
        ELSE /\ pc' = "install"
             /\ gen' = [gen EXCEPT
                          !.ignore = ignore, !.currentPkg = currentPkg,
                          !.mergedPkg = merged,
                          !.log = @ \o <<[op |-> "writeJSON", root |-> gen.dest],
                                         [op |-> "copyTpl", root |-> gen.dest]>>]
             /\ fs' = WithDir(gen.dest,
                              [Dir(gen.dest) EXCEPT
                                 !.hasPkg = TRUE,
                                 !.pkg = sortDeps(merged),
                                 !.files = writtenFiles(@, gen.props.quoteType = SingleQuote,
                                                        ignore, gen.props.pwa)])
  /\ UNCHANGED <<prev, runs, initial>>

\* ------------------------------------------------------------------------
\* install, end
\* ------------------------------------------------------------------------

Install ==
  /\ pc = "install"
  /\ pc' = "end"
  /\ gen' = [gen EXCEPT !.log = Append(@, [op |-> "installDependencies", root |-> gen.dest])]
  /\ UNCHANGED <<fs, prev, runs, initial>>

\* end: the eslint --fix pass of a single-quote project, and the closing message.
End ==
  /\ pc = "end"
  /\ prev' = [done |-> TRUE, dest |-> gen.dest, serverType |-> gen.props.serverType,
              pwa |-> gen.props.pwa, quoteType |-> gen.props.quoteType,
              createDirectory |-> gen.props.createDirectory,
              formatted |-> gen.props.quoteType = SingleQuote]
  /\ gen' = NoGen
  /\ pc' = "idle"
  /\ UNCHANGED <<fs, runs, initial>>

Next ==
  \/ Initializing
  \/ AskFor
  \/ AskForGithubAccount
  \/ Default
  \/ Writing
  \/ Install
  \/ End

\* One run of the generator, on any of the destinations.
Spec == Init /\ [][Next]_vars

\* Runs that follow one another, the first in an empty directory.
InitRerun ==
  /\ fs = [x \in {Root} |-> EmptyDir]
  /\ initial = EmptyDir
  /\ pc = "idle"
  /\ gen = NoGen
  /\ prev = NoPrev
  /\ runs = 0

NextRerun == Next \/ Rerun

SpecRerun == InitRerun /\ [][NextRerun]_vars

\* ========================================================================
\* Properties
\* ========================================================================

\* A run has resolved its answers and written its files.
Written == pc = "install"

\* A run has merged its answers and not yet composed or written anything.
Asked == pc = "askForGithubAccount"

Frameworks == {HapiJS, ExpressJS, KoaJS}

\* A fixture tree with one entry file per framework: HapiJS is given one too.
HapiFixtureEntry == <<"src", "server", "hapi-server.js">>

FixtureEntry(s) ==
  IF s = ExpressJS THEN ExpressEntry ELSE IF s = KoaJS THEN KoaEntry ELSE HapiFixtureEntry

FixtureTree == {FixtureEntry(s) : s \in Frameworks}

\* The entry files the templates hold for a framework: none for HapiJS.
OwnEntries(s) ==
  IF s = ExpressJS THEN {ExpressEntry} ELSE IF s = KoaJS THEN {KoaEntry} ELSE {}

\* C1 as stated: for every serverType the ignore rules name exactly the entry
\* files of the two other frameworks, and rendering a tree that holds one entry
\* file per framework leaves exactly the chosen framework's.
C1_ExactlyOneEntryLeft ==
  Written =>
    /\ Elems(gen.ignore) =
         {AnyDir(FixtureEntry(t)) : t \in Frameworks \ {gen.props.serverType}}
    /\ Rendered(FixtureTree, gen.ignore) = {FixtureEntry(gen.props.serverType)}

\* C1 amended: the ignore rules name exactly the express-server.js and
\* koa-server.js entry files of the other frameworks, never the chosen one's;
\* of these two files rendering leaves only the chosen framework's (none for
\* HapiJS), in the template tree and in the fixture tree, and no rule ever
\* excludes an entry file of HapiJS.
C1_OtherEntriesExcluded ==
  Written =>
    LET s == gen.props.serverType
        both == {ExpressEntry, KoaEntry}
    IN /\ s \in Frameworks
       /\ Elems(gen.ignore) = {AnyDir(e) : e \in both \ OwnEntries(s)}
       /\ Rendered(ServerTemplate, gen.ignore) \cap both = OwnEntries(s)
       /\ Rendered(FixtureTree, gen.ignore) = OwnEntries(s) \cup {HapiFixtureEntry}

\* C1 witness: an ExpressJS run rendered express-server.js and not
\* koa-server.js, and the fixture tree keeps two entry files.
C1_Witness ==
  /\ Written
  /\ gen.props.serverType = ExpressJS
  /\ ExpressEntry \in Rendered(ServerTemplate, gen.ignore)
  /\ KoaEntry \notin Rendered(ServerTemplate, gen.ignore)
  /\ Cardinality(Rendered(FixtureTree, gen.ignore)) = 2

\* C2 as stated: with express-server.js at the destination and nothing stored,
\* serverType resolves to ExpressJS and its prompt is not issued, whatever the
\* manifest holds.
C2_ExpressDetectedWhateverTheManifest ==
  (Asked /\ ExpressEntry \in Dir(Root).files /\ gen.root0.store = Undefined) =>
    /\ gen.props.serverType = ExpressJS
    /\ "serverType" \notin gen.prompted

ItemsOf(v) == IF v.kind = "array" THEN v.items ELSE <<>>

NoDuplicates(items) ==
  \A i, j \in 1..Len(items) : items[i] = items[j] => i = j

\* The manifest the run wrote at its destination.
WrittenPkg == Dir(gen.dest).pkg

\* C4 as stated: the keywords written are the union of the keywords of the
\* manifest found at the destination and of the prompted ones, without a
\* duplicate and without an empty entry.
C4_KeywordsAreADedupedUnion ==
  Written =>
    LET kw == ItemsOf(WrittenPkg.keywords)
    IN /\ Elems(kw) \ {<<>>} =
            (Elems(ItemsOf(gen.currentPkg.keywords))
               \cup Elems(ItemsOf(gen.props.keywords))) \ {<<>>}
       /\ NoDuplicates(kw)
       /\ <<>> \notin Elems(kw)

\* The name resolution of C5 in the order the code applies.
NameFromManifestThenCli ==
  IF Truthy(gen.pkg.name)
  THEN gen.props.name = gen.pkg.name /\ "name" \notin gen.prompted
  ELSE IF Truthy(gen.options.name) /\ kebabCase(CharsOf(gen.options.name)) # <<>>
  THEN /\ gen.props.name = Str(kebabCase(CharsOf(gen.options.name)))
       /\ "name" \notin gen.prompted
  ELSE gen.props.name = gen.answers.name /\ "name" \in gen.prompted

C6_ExistingScalarsKept ==
  Written =>
    \A x \in ScalarFields :
      Truthy(gen.currentPkg[x]) => WrittenPkg[x] = gen.currentPkg[x]

\* C6 witness: a description was prompted that differs from the one in the
\* manifest at the destination, and the manifest's was written; so was a name
\* that is not what the generator would have derived.
C6_Witness ==
  /\ Written
  /\ "description" \in gen.prompted
  /\ Truthy(gen.currentPkg.description)
  /\ gen.answers.description # gen.currentPkg.description
  /\ WrittenPkg.description = gen.currentPkg.description
  /\ Truthy(gen.currentPkg.version) /\ WrittenPkg.version # Str(<<"0.0.1">>)
  /\ Truthy(gen.currentPkg.license)

KeysAscend(entries) ==
  \A i \in 1..Len(entries) - 1 : lexLess(entries[i].key, entries[i + 1].key)

\* C7 as stated: no run fails in writing; a dependency group that is a mapping
\* is written with the same entries and its keys ascending; a group that is
\* absent or no mapping (null, a list, a string) is written as it was.
C7_GroupsSortedOrUntouched ==
  /\ pc # "failed"
  /\ Written =>
       \A g \in DepGroups :
         LET before == gen.mergedPkg[g]
             after == WrittenPkg[g]
         IN IF before.kind = "object"
            THEN /\ after.kind = "object"
                 /\ Elems(after.entries) = Elems(before.entries)
                 /\ Len(after.entries) = Len(before.entries)
                 /\ KeysAscend(after.entries)
            ELSE after = before

\* C8: after the default phase, editorconfig and git are composed; license if
\* and only if the license option is on and the manifest declares none; readme
\* if and only if README.md is missing at the destination; config if and only
\* if config/default.js is missing; webapp if and only if server/plugins/webapp
\* is missing.  So a gated generator whose output is there is not composed.
C8_GatedComposition ==
  pc = "writing" =>
    LET c == Elems(gen.composed)
        files == Dir(gen.dest).files
    IN /\ "electrode:editorconfig" \in c
       /\ "electrode:git" \in c
       /\ "license" \in c <=>
            (gen.options.license /\ gen.pkg.license \in {Undefined, Str(<<>>)})
       /\ "electrode:readme" \in c <=> <<"README.md">> \notin files
       /\ "electrode:config" \in c <=> <<"config", "default.js">> \notin files
       /\ "electrode:webapp" \in c <=>
            ~\E f \in files : Len(f) >= 3 /\ SubSeq(f, 1, 3) = <<"server", "plugins", "webapp">>
       /\ NoDuplicates(gen.composed)

\* C8 witness: a destination with README.md, config/default.js and the webapp
\* plugin but no declared license: only the license generator of the gated
\* four is composed.
C8_Witness ==
  /\ pc = "writing"
  /\ <<"README.md">> \in Dir(gen.dest).files
  /\ <<"config", "default.js">> \in Dir(gen.dest).files
  /\ "license" \in Elems(gen.composed)
  /\ "electrode:readme" \notin Elems(gen.composed)
  /\ "electrode:config" \notin Elems(gen.composed)
  /\ "electrode:webapp" \notin Elems(gen.composed)

\* C9 as stated: a run that follows a completed run without relocation finds
\* in the files of the same root the serverType, pwa and quoteType that run
\* resolved, and prompts for none of them.
C9_DetectionInvertsGeneration ==
  (Asked /\ prev.done /\ ~Truthy(prev.createDirectory)) =>
    /\ gen.props.serverType = prev.serverType
    /\ gen.props.pwa = prev.pwa
    /\ gen.props.quoteType = prev.quoteType
    /\ gen.prompted \cap {"serverType", "pwa", "quoteType"} = {}

\* C10 as stated: after any sequence of runs that began in an empty directory,
\* the project of the latest run holds at most one of express-server.js and
\* koa-server.js, the one of the serverType that run resolved (none for HapiJS).
C10_OneEntryFileOfLatestRun ==
  (pc = "idle" /\ prev.done) =>
    LET files == Dir(prev.dest).files
    IN /\ ~(ExpressEntry \in files /\ KoaEntry \in files)
       /\ ExpressEntry \in files <=> prev.serverType = ExpressJS
       /\ KoaEntry \in files <=> prev.serverType = KoaJS

====
